---- MODULE Spec2Model ----
(***************************************************************************)
(* A state-machine model of pytrimal's NEON backend                        *)
(* (src/pytrimal/impl/neon.cpp): NEONSimilarity::calculateMatrixIdentity,  *)
(* NEONSimilarity::calculateVectors, NEONCleaner::calculateSeqIdentity and *)
(* NEONCleaner::calculateSpuriousVector.                                   *)
(*                                                                         *)
(* One behaviour is the life of one instance (a NEONSimilarity or a        *)
(* NEONCleaner) built on one alignment; the driver calls its methods in    *)
(* any order.  The loops over 16-byte chunks, over sequence pairs, over    *)
(* columns and over compared sequences advance one iteration per action,   *)
(* the position being kept in pc and in the frame of locals.               *)
(*                                                                         *)
(* Floats are modelled by the exact rational they round, in lowest terms,  *)
(* together with the IEEE specials NaN, Inf and -Inf; a value never        *)
(* written is Uninit.  exp(-Q) of a rational Q # 0 is kept symbolically.   *)
(***************************************************************************)
EXTENDS Integers, Sequences, FiniteSets, TLC

VARIABLES
    self,            \* which instance was constructed: "Similarity" | "Cleaner"
    alig,            \* the alignment (alig->...), immutable
    simMatrix,       \* Similarity::simMatrix: NULL or the similarity table
    matrixIdentity,  \* Similarity::matrixIdentity: NULL or the NxN matrix
    MDK,             \* Similarity::MDK: the columns written so far, with their value
    gaps,            \* alig->Statistics->gaps: NULL or the gaps window
    reports,         \* what debug.report received, as a set
    identities,      \* alig->identities: NULL or the ragged matrix
    spuriousVector,  \* the output argument of calculateSpuriousVector
    hits,            \* NEONCleaner::hits     (uint32_t per column)
    hits_u8,         \* NEONCleaner::hits_u8  (uint8_t per column)
    pc,              \* position of the running method, "idle" between calls
    frame,           \* locals of the running method
    ret              \* the last call: [op |-> name, value |-> result]

vars == <<self, alig, simMatrix, matrixIdentity, MDK, gaps, reports, identities,
          spuriousVector, hits, hits_u8, pc, frame, ret>>

-----------------------------------------------------------------------------
(* Program constants *)

NLANES_8 == 16

UCHAR_MAX == 255

\* a uint8_t lane holds values modulo 2^8
U8 == 256

\* vaddvq_u16 returns a uint16_t
U16 == 65536

-----------------------------------------------------------------------------
(* Bounds of the model *)

\* small alignments have 1..MaxSeqs sequences of 0..MaxRes residues
MaxSeqs == 3

MaxRes == 2

\* long alignments have b*NLANES_8*UCHAR_MAX + c*NLANES_8 + t residues,
\* b in 0..MaxBlocks, c in 0..MaxChunks, t in 0..MaxTail
MaxBlocks == 1

MaxChunks == 1

MaxTail == 1

\* the gappy alignment: GapSeqs sequences of GapRes residues
GapSeqs == 5

GapRes == 6

\* alignments of many sequences have UCHAR_MAX + SeqsOver sequences
SeqsOver == 3

\* calculateVectors is driven on alignments of at most MaxCols columns
MaxCols == 6

\* calculateSpuriousVector is driven on alignments of at most MaxWidth columns
MaxWidth == 17

-----------------------------------------------------------------------------
(* Values *)

\* a null pointer; every allocated array is a function with a non-empty domain
NULL == << >>

\* floats are <<kind, n, d>>: the rational n/d, or an IEEE special, or exp(-n/d)
NaN == <<"nan", 0, 1>>

Inf == <<"inf", 1, 1>>

NegInf == <<"inf", -1, 1>>

\* a float that was allocated and never written
Uninit == <<"uninit", 0, 1>>

RECURSIVE GCD(_, _)
GCD(a, b) == IF b = 0 THEN a ELSE GCD(b, a % b)

Abs(a) == IF a < 0 THEN -a ELSE a

\* the rational n/d (d # 0) in lowest terms with a positive denominator
Rat(n, d) ==
    LET g == GCD(Abs(n), Abs(d))
        s == IF d < 0 THEN -1 ELSE 1
    IN  <<"rat", (s * n) \div g, (s * d) \div g>>

Zero == <<"rat", 0, 1>>

One == <<"rat", 1, 1>>

IsRat(x) == x[1] = "rat"

\* (float) a / b for integers a, b
FDivInt(a, b) ==
    IF b = 0
    THEN (IF a = 0 THEN NaN ELSE IF a > 0 THEN Inf ELSE NegInf)
    ELSE Rat(a, b)

\* 1.0F - x
OneMinus(x) ==
    CASE x = NaN -> NaN
      [] x = Inf -> NegInf
      [] x = NegInf -> Inf
      [] OTHER -> Rat(x[3] - x[2], x[3])

\* x + y, x * y, x / y on floats (no infinity arises from the sums and
\* products of the model; a special operand gives NaN)
FAdd(x, y) ==
    IF ~IsRat(x) \/ ~IsRat(y) THEN NaN
    ELSE Rat(x[2] * y[3] + y[2] * x[3], x[3] * y[3])

FMul(x, y) ==
    IF ~IsRat(x) \/ ~IsRat(y) THEN NaN
    ELSE Rat(x[2] * y[2], x[3] * y[3])

FDiv(x, y) ==
    IF ~IsRat(x) \/ ~IsRat(y) THEN NaN
    ELSE IF y[2] = 0
         THEN (IF x[2] = 0 THEN NaN ELSE IF x[2] > 0 THEN Inf ELSE NegInf)
         ELSE Rat(x[2] * y[3], x[3] * y[2])

\* the IEEE comparisons x == y and x < 0: false when an operand is NaN
FEq(x, y) == x[1] \in {"rat", "inf"} /\ x = y

FNegative(x) == x[1] \in {"rat", "inf"} /\ x[2] < 0

\* exp(-Q): exactly 1 at Q = 0, NaN at NaN, symbolic otherwise
ExpNeg(Q) ==
    IF ~IsRat(Q) THEN NaN
    ELSE IF Q = Zero THEN One
    ELSE <<"exp", Q[2], Q[3]>>

\* a float lies in [0, 1]; exp(-Q) does exactly when Q >= 0
InUnit(x) ==
    \/ x[1] = "rat" /\ 0 <= x[2] /\ x[2] <= x[3]
    \/ x[1] = "exp" /\ x[2] >= 0

-----------------------------------------------------------------------------
(* The alignment *)

\* residues that appear anywhere in an alignment
Alphabet == {"A", "-", "N"}

\* further symbols, which appear only as the first residue of the first sequence
OddSymbols == {"a", "*", "B"}

Types == {"AA", "NT"}

\* alig->sequences[j][k]: sequence 0 is tile row 1, every other sequence is
\* tile row 2; columns repeat with period 2
sequences(j, k) ==
    alig.tile[IF j = 0 THEN 1 ELSE 2][IF k % 2 = 0 THEN 1 ELSE 2]

\* alig->saveSequences[j] and alig->saveResidues[k]: -1 when removed
saveSequences(j) == IF j \in alig.removed THEN -1 ELSE j

saveResidues(k) == IF alig.masked[IF k % 2 = 0 THEN 1 ELSE 2] THEN -1 ELSE k

originalNumberOfSequences == alig.N

originalNumberOfResidues == alig.R

\* an untrimmed alignment: numberOfResidues is originalNumberOfResidues
numberOfResidues == alig.R

\* char indet = alig->getAlignmentType() & SequenceTypes::AA ? 'X' : 'N'
indet == IF alig.type = "AA" THEN "X" ELSE "N"

-----------------------------------------------------------------------------
(* NEON primitives, lane by lane.  A vector is a function on 0..NLANES_8-1. *)

Lanes == 0 .. (NLANES_8 - 1)

\* vdupq_n_u8(0)
ZeroLanes == [lane \in Lanes |-> 0]

\* vaddq_u8: lane-wise addition modulo 2^8
vaddq_u8(a, b) == [lane \in Lanes |-> (a[lane] + b[lane]) % U8]

\* vhaddq_u8: vpaddlq_u8 widens adjacent pairs to 16 bits, vaddvq_u16 adds the
\* eight 16-bit lanes into a uint16_t
vhaddq_u8(a) ==
    LET paired == [p \in 0 .. 7 |-> a[2 * p] + a[2 * p + 1]]
    IN  (paired[0] + paired[1] + paired[2] + paired[3]
         + paired[4] + paired[5] + paired[6] + paired[7]) % U16

\* vorrq_u8(vceqq_u8(seq, allgap), vceqq_u8(seq, allindet)) in one lane, and
\* the scalar (c == '-') || (c == indet)
IsGap(c) == (c = "-") \/ (c = indet)

-----------------------------------------------------------------------------
(* NEONSimilarity::calculateMatrixIdentity *)

\* vandq_u8(eq, vbicq_u8(ONES, vorrq_u8(gapsi, gapsj))) at position p
SumMask(i, j, p) ==
    LET ci == sequences(i, p)
        cj == sequences(j, p)
    IN  IF (ci = cj) /\ ~(IsGap(ci) \/ IsGap(cj)) THEN 1 ELSE 0

\* vbicq_u8(ONES, vandq_u8(gapsi, gapsj)) at position p
LenMask(i, j, p) ==
    IF ~(IsGap(sequences(i, p)) /\ IsGap(sequences(j, p))) THEN 1 ELSE 0

\* the scalar tail from position k: what the loop adds to sum and to length
TailSum(i, j, k) ==
    Cardinality({p \in k .. (originalNumberOfResidues - 1) :
        /\ ~IsGap(sequences(i, p))
        /\ ~IsGap(sequences(j, p))
        /\ sequences(i, p) = sequences(j, p)})

TailLength(i, j, k) ==
    Cardinality({p \in k .. (originalNumberOfResidues - 1) :
        ~IsGap(sequences(i, p)) \/ ~IsGap(sequences(j, p))})

\* the locals at the head of the body of the pair loop
PairFrame(caller, cutByGap, i, j) ==
    [caller |-> caller, cutByGap |-> cutByGap, i |-> i, j |-> j, k |-> 0, l |-> 0,
     sum |-> 0, length |-> 0, sum_acc |-> ZeroLanes, len_acc |-> ZeroLanes]

IdleFrame == [caller |-> "none"]

\* a block loop that is entered only when two more chunks than a block remain
UnrolledCond_TwoChunksLate(k) ==
    k + NLANES_8 * (UCHAR_MAX + 2) < originalNumberOfResidues

\* the condition of the loop of unrolled blocks, and of the loop of chunks
UnrolledCond(k) == k + NLANES_8 * UCHAR_MAX < originalNumberOfResidues

RemainingCond(k) == k + NLANES_8 < originalNumberOfResidues

\* ret while a call is in progress
Running(op) == [op |-> op, value |-> "running"]

\* what calculateVectors does once the matrix is there: it fetches the gaps
\* window when cutByGap is set and enters the loop over the columns
EnterColumns(cutByGap) ==
    /\ gaps' = IF cutByGap /\ gaps = NULL
               THEN [window |-> [k \in 0 .. (originalNumberOfResidues - 1) |->
                        Cardinality({s \in 0 .. (originalNumberOfSequences - 1) :
                                        sequences(s, k) = "-"})]]
               ELSE gaps
    /\ pc' = "cv_column"
    /\ frame' = [caller |-> "driver", cutByGap |-> cutByGap, i |-> 0]

\* calculateMatrixIdentity is entered: it returns at once on a matrix that is
\* there, else allocates it and starts on the first pair
EnterMatrixIdentity(caller, cutByGap) ==
    IF matrixIdentity # NULL
    THEN /\ pc' = "idle"
         /\ frame' = IdleFrame
         /\ ret' = [op |-> "calculateMatrixIdentity", value |-> "void"]
         /\ UNCHANGED <<matrixIdentity, gaps>>
    ELSE /\ matrixIdentity' =
                [p \in (0 .. (originalNumberOfSequences - 1))
                        \X (0 .. (originalNumberOfSequences - 1)) |-> Uninit]
         /\ IF 1 < originalNumberOfSequences
            THEN /\ pc' = "mi_scan"
                 /\ frame' = PairFrame(caller, cutByGap, 0, 1)
                 /\ ret' = Running(IF caller = "driver"
                                   THEN "calculateMatrixIdentity" ELSE caller)
                 /\ UNCHANGED gaps
            ELSE IF caller = "calculateVectors"
            THEN EnterColumns(cutByGap) /\ ret' = Running(caller)
            ELSE /\ pc' = "idle"
                 /\ frame' = IdleFrame
                 /\ ret' = [op |-> "calculateMatrixIdentity", value |-> "void"]
                 /\ UNCHANGED gaps

calculateMatrixIdentity ==
    /\ pc = "idle"
    /\ self = "Similarity"
    /\ EnterMatrixIdentity("driver", FALSE)
    /\ UNCHANGED <<self, alig, simMatrix, MDK, reports, identities,
                   spuriousVector, hits, hits_u8>>

\* one iteration of the inner loop of an unrolled block
MI_UnrolledChunk ==
    /\ pc = "mi_scan"
    /\ frame.l < UCHAR_MAX
    /\ (frame.l > 0) \/ UnrolledCond(frame.k)
    /\ frame' = [frame EXCEPT
            !.sum_acc = vaddq_u8(@, [lane \in Lanes |->
                                        SumMask(frame.i, frame.j, frame.k + lane)]),
            !.len_acc = vaddq_u8(@, [lane \in Lanes |->
                                        LenMask(frame.i, frame.j, frame.k + lane)]),
            !.l = @ + 1,
            !.k = @ + NLANES_8]
    /\ UNCHANGED <<self, alig, simMatrix, matrixIdentity, MDK, gaps, reports,
                   identities, spuriousVector, hits, hits_u8, pc, ret>>

\* a merge that leaves the accumulators as they are
MI_UnrolledMerge_NoReset ==
    /\ pc = "mi_scan"
    /\ frame.l = UCHAR_MAX
    /\ frame' = [frame EXCEPT
            !.sum = @ + vhaddq_u8(frame.sum_acc),
            !.length = @ + vhaddq_u8(frame.len_acc),
            !.l = 0]
    /\ UNCHANGED <<self, alig, simMatrix, matrixIdentity, MDK, gaps, reports,
                   identities, spuriousVector, hits, hits_u8, pc, ret>>

\* the accumulators are merged after the UCHAR_MAX iterations of a block
MI_UnrolledMerge ==
    /\ pc = "mi_scan"
    /\ frame.l = UCHAR_MAX
    /\ frame' = [frame EXCEPT
            !.sum = @ + vhaddq_u8(frame.sum_acc),
            !.length = @ + vhaddq_u8(frame.len_acc),
            !.sum_acc = ZeroLanes,
            !.len_acc = ZeroLanes,
            !.l = 0]
    /\ UNCHANGED <<self, alig, simMatrix, matrixIdentity, MDK, gaps, reports,
                   identities, spuriousVector, hits, hits_u8, pc, ret>>

\* one iteration of the loop over the remaining chunks
MI_RemainingChunk ==
    /\ pc = "mi_scan"
    /\ frame.l = 0
    /\ ~UnrolledCond(frame.k)
    /\ RemainingCond(frame.k)
    /\ frame' = [frame EXCEPT
            !.sum_acc = vaddq_u8(@, [lane \in Lanes |->
                                        SumMask(frame.i, frame.j, frame.k + lane)]),
            !.len_acc = vaddq_u8(@, [lane \in Lanes |->
                                        LenMask(frame.i, frame.j, frame.k + lane)]),
            !.k = @ + NLANES_8]
    /\ UNCHANGED <<self, alig, simMatrix, matrixIdentity, MDK, gaps, reports,
                   identities, spuriousVector, hits, hits_u8, pc, ret>>

\* the value stored for a pair
IdentityValue(sum, length) == OneMinus(FDivInt(sum, length))

\* the accumulators are merged, the tail is scanned and the pair is stored
MI_Tail ==
    /\ pc = "mi_scan"
    /\ frame.l = 0
    /\ ~UnrolledCond(frame.k)
    /\ ~RemainingCond(frame.k)
    /\ LET sum == frame.sum + vhaddq_u8(frame.sum_acc)
                    + TailSum(frame.i, frame.j, frame.k)
           length == frame.length + vhaddq_u8(frame.len_acc)
                    + TailLength(frame.i, frame.j, frame.k)
       IN  /\ frame' = [frame EXCEPT !.sum = sum, !.length = length,
                            !.k = IF @ < originalNumberOfResidues
                                  THEN originalNumberOfResidues ELSE @]
           /\ matrixIdentity' = [matrixIdentity EXCEPT
                    ![<<frame.i, frame.j>>] = IdentityValue(sum, length),
                    ![<<frame.j, frame.i>>] = IdentityValue(sum, length)]
    /\ pc' = "mi_next"
    /\ UNCHANGED <<self, alig, simMatrix, MDK, gaps, reports, identities,
                   spuriousVector, hits, hits_u8, ret>>

\* the pair loop advances, or the method returns to its caller
MI_Next ==
    /\ pc = "mi_next"
    /\ IF frame.j + 1 < originalNumberOfSequences
       THEN /\ pc' = "mi_scan"
            /\ frame' = PairFrame(frame.caller, frame.cutByGap, frame.i, frame.j + 1)
            /\ UNCHANGED <<gaps, ret>>
       ELSE IF frame.i + 2 < originalNumberOfSequences
       THEN /\ pc' = "mi_scan"
            /\ frame' = PairFrame(frame.caller, frame.cutByGap, frame.i + 1, frame.i + 2)
            /\ UNCHANGED <<gaps, ret>>
       ELSE IF frame.caller = "calculateVectors"
       THEN EnterColumns(frame.cutByGap) /\ UNCHANGED ret
       ELSE /\ pc' = "idle"
            /\ frame' = IdleFrame
            /\ ret' = [op |-> "calculateMatrixIdentity", value |-> "void"]
            /\ UNCHANGED gaps
    /\ UNCHANGED <<self, alig, simMatrix, matrixIdentity, MDK, reports, identities,
                   spuriousVector, hits, hits_u8>>

-----------------------------------------------------------------------------
(* NEONSimilarity::calculateVectors *)

\* the character code of a symbol
Ord(c) ==
    CASE c = "*" -> 42
      [] c = "-" -> 45
      [] c = "A" -> 65
      [] c = "B" -> 66
      [] c = "N" -> 78
      [] c = "X" -> 88
      [] c = "a" -> 97

\* utils::toUpper
toUpper(c) == IF c = "a" THEN "A" ELSE c

\* the similarity table: vhash maps letter - 'A' to a residue class or -1,
\* distMat holds a float per pair of classes
VHash == [x \in 0 .. 25 |-> IF x = 0 THEN 0 ELSE IF x = 13 THEN 1 ELSE -1]

Distances == {-1, 1}

Tables ==
    {[vhash |-> VHash,
      distMat |-> <<<<Zero, Rat(d, 1)>>, <<Rat(d, 1), Zero>>>>] : d \in Distances}

\* gaps[i] >= gapThreshold, with gapThreshold = 0.8F * alig->numberOfResidues
\* (0.8 is 4/5; on the alignments of the model the float product rounds to
\* the side of the exact one)
ReachesGapThreshold(g) == 5 * g >= 4 * numberOfResidues

\* the letter of sequence j in column i, and whether it fills colgap[j]
Letter(j, i) == toUpper(sequences(j, i))

ColGap(j, i) == (Letter(j, i) = indet) \/ (Letter(j, i) = "-")

IncorrectSymbol(j, i) ==
    /\ ~ColGap(j, i)
    /\ (Ord(Letter(j, i)) < Ord("A")) \/ (Ord(Letter(j, i)) > 90)

UndefinedSymbol(j, i) ==
    /\ ~ColGap(j, i)
    /\ ~IncorrectSymbol(j, i)
    /\ simMatrix.vhash[Ord(Letter(j, i)) - Ord("A")] = -1

\* colnum[j]
ColNum(j, i) == simMatrix.vhash[Ord(Letter(j, i)) - Ord("A")]

\* the sequences at which filling the column buffer stops with a report
BadSequences(i) ==
    {j \in 0 .. (originalNumberOfSequences - 1) :
        IncorrectSymbol(j, i) \/ UndefinedSymbol(j, i)}

Least(S) == CHOOSE x \in S : \A y \in S : x <= y

\* the pairs j < k of the column over which num and den are accumulated
ColumnPairs(i) ==
    {p \in (0 .. (originalNumberOfSequences - 1))
            \X (0 .. (originalNumberOfSequences - 1)) :
        p[1] < p[2] /\ ~ColGap(p[1], i) /\ ~ColGap(p[2], i)}

\* num and den over a set of pairs of column i
RECURSIVE ColumnNum(_, _)
ColumnNum(S, i) ==
    IF S = {} THEN Zero
    ELSE LET p == CHOOSE q \in S : TRUE
         IN  FAdd(ColumnNum(S \ {p}, i),
                  FMul(matrixIdentity[p],
                       simMatrix.distMat[ColNum(p[1], i) + 1][ColNum(p[2], i) + 1]))

RECURSIVE ColumnDen(_)
ColumnDen(S) ==
    IF S = {} THEN Zero
    ELSE LET p == CHOOSE q \in S : TRUE
         IN  FAdd(ColumnDen(S \ {p}), matrixIdentity[p])

\* a score that is 1 for every Q but a negative one
Score_OneUnlessNegative(num, den) ==
    IF FEq(den, Zero) THEN Zero
    ELSE LET Q == FDiv(num, den)
         IN  IF FNegative(Q) THEN ExpNeg(Q) ELSE One

\* the value of MDK[i] from num and den
Score(num, den) ==
    IF FEq(den, Zero) THEN Zero
    ELSE LET Q == FDiv(num, den)
         IN  IF FNegative(Q) THEN One ELSE ExpNeg(Q)

\* MDK with column i written
WriteColumn(i, v) ==
    [c \in (DOMAIN MDK) \cup {i} |-> IF c = i THEN v ELSE MDK[c]]

\* a calculateVectors that builds the identity matrix before it looks at the
\* similarity table
calculateVectors_MatrixFirst(cutByGap) ==
    /\ pc = "idle"
    /\ self = "Similarity"
    /\ originalNumberOfResidues <= MaxCols
    /\ IF matrixIdentity = NULL
       THEN EnterMatrixIdentity("calculateVectors", cutByGap)
       ELSE IF simMatrix = NULL
       THEN /\ ret' = [op |-> "calculateVectors", value |-> "false"]
            /\ UNCHANGED <<matrixIdentity, gaps, pc, frame>>
       ELSE /\ EnterColumns(cutByGap)
            /\ ret' = Running("calculateVectors")
            /\ UNCHANGED matrixIdentity
    /\ UNCHANGED <<self, alig, simMatrix, MDK, reports, identities,
                   spuriousVector, hits, hits_u8>>

calculateVectors(cutByGap) ==
    /\ pc = "idle"
    /\ self = "Similarity"
    /\ originalNumberOfResidues <= MaxCols
    /\ IF simMatrix = NULL
       THEN /\ ret' = [op |-> "calculateVectors", value |-> "false"]
            /\ UNCHANGED <<matrixIdentity, gaps, pc, frame>>
       ELSE IF matrixIdentity = NULL
       THEN EnterMatrixIdentity("calculateVectors", cutByGap)
       ELSE /\ EnterColumns(cutByGap)
            /\ ret' = Running("calculateVectors")
            /\ UNCHANGED matrixIdentity
    /\ UNCHANGED <<self, alig, simMatrix, MDK, reports, identities,
                   spuriousVector, hits, hits_u8>>

\* a column whose gaps reach the threshold is set to 0 and skipped
CV_SkipColumn ==
    /\ pc = "cv_column"
    /\ frame.i < originalNumberOfResidues
    /\ frame.cutByGap /\ ReachesGapThreshold(gaps.window[frame.i])
    /\ MDK' = WriteColumn(frame.i, Zero)
    /\ frame' = [frame EXCEPT !.i = @ + 1]
    /\ UNCHANGED <<self, alig, simMatrix, matrixIdentity, gaps, reports, identities,
                   spuriousVector, hits, hits_u8, pc, ret>>

\* filling the column buffer meets a symbol that is no letter, or a letter
\* the table does not define: it is reported and the method returns false
CV_BadSymbol ==
    /\ pc = "cv_column"
    /\ frame.i < originalNumberOfResidues
    /\ ~(frame.cutByGap /\ ReachesGapThreshold(gaps.window[frame.i]))
    /\ BadSequences(frame.i) # {}
    /\ LET j == Least(BadSequences(frame.i))
       IN  reports' = reports \cup
                {<<IF IncorrectSymbol(j, frame.i)
                   THEN "IncorrectSymbol" ELSE "UndefinedSymbol",
                   Letter(j, frame.i)>>}
    /\ pc' = "idle"
    /\ frame' = IdleFrame
    /\ ret' = [op |-> "calculateVectors", value |-> "false"]
    /\ UNCHANGED <<self, alig, simMatrix, matrixIdentity, MDK, gaps, identities,
                   spuriousVector, hits, hits_u8>>

\* the column is scored from the identity matrix and the distance table
CV_ScoreColumn ==
    /\ pc = "cv_column"
    /\ frame.i < originalNumberOfResidues
    /\ ~(frame.cutByGap /\ ReachesGapThreshold(gaps.window[frame.i]))
    /\ BadSequences(frame.i) = {}
    /\ MDK' = WriteColumn(frame.i,
                Score(ColumnNum(ColumnPairs(frame.i), frame.i),
                      ColumnDen(ColumnPairs(frame.i))))
    /\ frame' = [frame EXCEPT !.i = @ + 1]
    /\ UNCHANGED <<self, alig, simMatrix, matrixIdentity, gaps, reports, identities,
                   spuriousVector, hits, hits_u8, pc, ret>>

\* after the last column the identity matrix is deleted
CV_Release ==
    /\ pc = "cv_column"
    /\ frame.i = originalNumberOfResidues
    /\ matrixIdentity' = NULL
    /\ pc' = "idle"
    /\ frame' = IdleFrame
    /\ ret' = [op |-> "calculateVectors", value |-> "true"]
    /\ UNCHANGED <<self, alig, simMatrix, MDK, gaps, reports, identities,
                   spuriousVector, hits, hits_u8>>

-----------------------------------------------------------------------------
(* NEONCleaner::NEONCleaner and NEONCleaner::calculateSeqIdentity *)

\* skipResidues[k], as the constructor fills it: 0xFF for a removed column
skipResidues(k) == IF saveResidues(k) = -1 THEN 255 ELSE 0

\* vbicq_u8(vbicq_u8(ONES, vandq_u8(gapsi, gapsj)), skip) at position p: the
\* lane is 1 unless both are gaps or bit 0 of skip is set
DstMask(i, j, p) ==
    IF ~(IsGap(sequences(i, p)) /\ IsGap(sequences(j, p)))
       /\ skipResidues(p) % 2 = 0
    THEN 1 ELSE 0

\* vandq_u8(eq, mask) at position p
HitMask(i, j, p) ==
    IF sequences(i, p) = sequences(j, p) THEN DstMask(i, j, p) ELSE 0

\* the scalar tail from position k: what the loop adds to dst and to hit; and
\* a tail that counts for dst the removed columns too
TailDst_Unmasked(i, j, k) ==
    Cardinality({p \in k .. (originalNumberOfResidues - 1) :
        ~(IsGap(sequences(i, p)) /\ IsGap(sequences(j, p)))})

TailDst(i, j, k) ==
    Cardinality({p \in k .. (originalNumberOfResidues - 1) :
        /\ ~(IsGap(sequences(i, p)) /\ IsGap(sequences(j, p)))
        /\ skipResidues(p) = 0})

TailHit(i, j, k) ==
    Cardinality({p \in k .. (originalNumberOfResidues - 1) :
        /\ ~(IsGap(sequences(i, p)) /\ IsGap(sequences(j, p)))
        /\ skipResidues(p) = 0
        /\ sequences(i, p) = sequences(j, p)})

\* the sequences the loops do not skip, and the pairs i < j of them in the
\* order the loops visit them
Kept == {s \in 0 .. (originalNumberOfSequences - 1) : saveSequences(s) # -1}

KeptPairs == {p \in Kept \X Kept : p[1] < p[2]}

Before(p, q) == (p[1] < q[1]) \/ (p[1] = q[1] /\ p[2] < q[2])

FirstOf(S) == CHOOSE p \in S : \A q \in S : p = q \/ Before(p, q)

PairsAfter(p) == {q \in KeptPairs : Before(p, q)}

SeqPairFrame(p) ==
    [caller |-> "driver", i |-> p[1], j |-> p[2], k |-> 0, l |-> 0,
     hit |-> 0, dst |-> 0, hit_acc |-> ZeroLanes, dst_acc |-> ZeroLanes]

\* the rows of the kept sequences are allocated, their diagonal set to 0
calculateSeqIdentity ==
    /\ pc = "idle"
    /\ self = "Cleaner"
    /\ identities' =
            [row |-> [p \in Kept \X (0 .. (originalNumberOfSequences - 1)) |->
                        IF p[1] = p[2] THEN Zero ELSE Uninit]]
    /\ IF KeptPairs # {}
       THEN /\ pc' = "si_scan"
            /\ frame' = SeqPairFrame(FirstOf(KeptPairs))
            /\ ret' = Running("calculateSeqIdentity")
       ELSE /\ ret' = [op |-> "calculateSeqIdentity", value |-> "void"]
            /\ UNCHANGED <<pc, frame>>
    /\ UNCHANGED <<self, alig, simMatrix, matrixIdentity, MDK, gaps, reports,
                   spuriousVector, hits, hits_u8>>

SI_UnrolledChunk ==
    /\ pc = "si_scan"
    /\ frame.l < UCHAR_MAX
    /\ (frame.l > 0) \/ UnrolledCond(frame.k)
    /\ frame' = [frame EXCEPT
            !.dst_acc = vaddq_u8(@, [lane \in Lanes |->
                                        DstMask(frame.i, frame.j, frame.k + lane)]),
            !.hit_acc = vaddq_u8(@, [lane \in Lanes |->
                                        HitMask(frame.i, frame.j, frame.k + lane)]),
            !.l = @ + 1,
            !.k = @ + NLANES_8]
    /\ UNCHANGED <<self, alig, simMatrix, matrixIdentity, MDK, gaps, reports,
                   identities, spuriousVector, hits, hits_u8, pc, ret>>

SI_UnrolledMerge ==
    /\ pc = "si_scan"
    /\ frame.l = UCHAR_MAX
    /\ frame' = [frame EXCEPT
            !.dst = @ + vhaddq_u8(frame.dst_acc),
            !.hit = @ + vhaddq_u8(frame.hit_acc),
            !.dst_acc = ZeroLanes,
            !.hit_acc = ZeroLanes,
            !.l = 0]
    /\ UNCHANGED <<self, alig, simMatrix, matrixIdentity, MDK, gaps, reports,
                   identities, spuriousVector, hits, hits_u8, pc, ret>>

SI_RemainingChunk ==
    /\ pc = "si_scan"
    /\ frame.l = 0
    /\ ~UnrolledCond(frame.k)
    /\ RemainingCond(frame.k)
    /\ frame' = [frame EXCEPT
            !.dst_acc = vaddq_u8(@, [lane \in Lanes |->
                                        DstMask(frame.i, frame.j, frame.k + lane)]),
            !.hit_acc = vaddq_u8(@, [lane \in Lanes |->
                                        HitMask(frame.i, frame.j, frame.k + lane)]),
            !.k = @ + NLANES_8]
    /\ UNCHANGED <<self, alig, simMatrix, matrixIdentity, MDK, gaps, reports,
                   identities, spuriousVector, hits, hits_u8, pc, ret>>

\* the value stored for a pair: 0 when dst is 0, else hit / dst
SeqIdentityValue(hit, dst) == IF dst = 0 THEN Zero ELSE FDivInt(hit, dst)

\* the accumulators are merged, the tail is scanned and the pair is stored in
\* both slots; a pair with dst = 0 is reported
SI_Tail ==
    /\ pc = "si_scan"
    /\ frame.l = 0
    /\ ~UnrolledCond(frame.k)
    /\ ~RemainingCond(frame.k)
    /\ LET hit == frame.hit + vhaddq_u8(frame.hit_acc)
                    + TailHit(frame.i, frame.j, frame.k)
           dst == frame.dst + vhaddq_u8(frame.dst_acc)
                    + TailDst(frame.i, frame.j, frame.k)
       IN  /\ frame' = [frame EXCEPT !.hit = hit, !.dst = dst,
                            !.k = IF @ < originalNumberOfResidues
                                  THEN originalNumberOfResidues ELSE @]
           /\ identities' = [row |-> [identities.row EXCEPT
                    ![<<frame.i, frame.j>>] = SeqIdentityValue(hit, dst),
                    ![<<frame.j, frame.i>>] = SeqIdentityValue(hit, dst)]]
           /\ reports' = IF dst = 0
                         THEN reports \cup {<<"NoResidueSequences", frame.i, frame.j>>}
                         ELSE reports
    /\ pc' = "si_next"
    /\ UNCHANGED <<self, alig, simMatrix, matrixIdentity, MDK, gaps,
                   spuriousVector, hits, hits_u8, ret>>

SI_Next ==
    /\ pc = "si_next"
    /\ IF PairsAfter(<<frame.i, frame.j>>) # {}
       THEN /\ pc' = "si_scan"
            /\ frame' = SeqPairFrame(FirstOf(PairsAfter(<<frame.i, frame.j>>)))
            /\ UNCHANGED ret
       ELSE /\ pc' = "idle"
            /\ frame' = IdleFrame
            /\ ret' = [op |-> "calculateSeqIdentity", value |-> "void"]
    /\ UNCHANGED <<self, alig, simMatrix, matrixIdentity, MDK, gaps, reports,
                   identities, spuriousVector, hits, hits_u8>>

-----------------------------------------------------------------------------
(* NEONCleaner::calculateSpuriousVector *)

\* hits is an array of uint32_t: a count is at most the number of sequences,
\* so no addition to it wraps

\* the overlap fractions the driver passes
Overlaps == {Zero, Rat(1, 2), One}

\* uint32_t(ceil(overlap * float(originalNumberOfSequences - 1)))
Threshold(overlap) ==
    (overlap[2] * (originalNumberOfSequences - 1) + overlap[3] - 1) \div overlap[3]

\* the lane of n = vandq_u8(vorrq_u8(eq, gaps), ONES) at column k
HitLane(i, j, k) ==
    IF (sequences(i, k) = sequences(j, k))
       \/ ~(IsGap(sequences(i, k)) \/ IsGap(sequences(j, k)))
    THEN 1 ELSE 0

\* a tail that counts a column where either character is a residue
HitScalar_EitherResidue(i, j, k) ==
    LET nongapi == (sequences(i, k) # indet) /\ (sequences(i, k) # "-")
        nongapj == (sequences(j, k) # indet) /\ (sequences(j, k) # "-")
    IN  IF (nongapi \/ nongapj) \/ (sequences(i, k) = sequences(j, k)) THEN 1 ELSE 0

\* what the scalar tail adds at column k
HitScalar(i, j, k) ==
    LET nongapi == (sequences(i, k) # indet) /\ (sequences(i, k) # "-")
        nongapj == (sequences(j, k) # indet) /\ (sequences(j, k) # "-")
    IN  IF (nongapi /\ nongapj) \/ (sequences(i, k) = sequences(j, k)) THEN 1 ELSE 0

\* the columns the chunk loop covers: k + NLANES_8 <= originalNumberOfResidues
InChunks(k) == k < (originalNumberOfResidues \div NLANES_8) * NLANES_8

Columns == 0 .. (originalNumberOfResidues - 1)

\* hits_u8 after sequence j has been compared to sequence i
Compared(i, j) ==
    [k \in Columns |->
        (hits_u8.col[k] + (IF InChunks(k) THEN HitLane(i, j, k)
                                         ELSE HitScalar(i, j, k))) % U8]

\* entry i of the output vector is written
WriteScore(i, v) ==
    [out |-> [s \in (DOMAIN spuriousVector.out) \cup {i} |->
                IF s = i THEN v ELSE spuriousVector.out[s]]]

\* without an output vector the method returns false; else it computes the
\* threshold and enters the loop over the sequences
calculateSpuriousVector(overlap, buffer) ==
    /\ pc = "idle"
    /\ self = "Cleaner"
    /\ originalNumberOfResidues <= MaxWidth
    /\ spuriousVector' = buffer
    /\ IF buffer = NULL
       THEN /\ ret' = [op |-> "calculateSpuriousVector", value |-> "false"]
            /\ UNCHANGED <<pc, frame>>
       ELSE /\ pc' = "sv_begin"
            /\ frame' = [caller |-> "driver", overlap |-> overlap,
                         ovrlap |-> Threshold(overlap), i |-> 0, j |-> 0]
            /\ ret' = Running("calculateSpuriousVector")
    /\ UNCHANGED <<self, alig, simMatrix, matrixIdentity, MDK, gaps, reports,
                   identities, hits, hits_u8>>

\* the hit counts are reset for sequence i
SV_Begin ==
    /\ pc = "sv_begin"
    /\ hits' = [col |-> [k \in Columns |-> 0]]
    /\ hits_u8' = [col |-> [k \in Columns |-> 0]]
    /\ frame' = [frame EXCEPT !.j = 0]
    /\ pc' = "sv_compare"
    /\ UNCHANGED <<self, alig, simMatrix, matrixIdentity, MDK, gaps, reports,
                   identities, spuriousVector, ret>>

\* the sequence is not compared to itself
SV_Skip ==
    /\ pc = "sv_compare"
    /\ frame.j < originalNumberOfSequences
    /\ frame.j = frame.i
    /\ frame' = [frame EXCEPT !.j = @ + 1]
    /\ UNCHANGED <<self, alig, simMatrix, matrixIdentity, MDK, gaps, reports,
                   identities, spuriousVector, hits, hits_u8, pc, ret>>

\* sequence j is compared to sequence i; when j is a multiple of UCHAR_MAX the
\* byte counts are added to hits and reset
SV_Compare ==
    /\ pc = "sv_compare"
    /\ frame.j < originalNumberOfSequences
    /\ frame.j # frame.i
    /\ IF frame.j % UCHAR_MAX = 0
       THEN /\ hits' = [col |-> [k \in Columns |->
                            hits.col[k] + Compared(frame.i, frame.j)[k]]]
            /\ hits_u8' = [col |-> [k \in Columns |-> 0]]
       ELSE /\ hits_u8' = [col |-> Compared(frame.i, frame.j)]
            /\ UNCHANGED hits
    /\ frame' = [frame EXCEPT !.j = @ + 1]
    /\ UNCHANGED <<self, alig, simMatrix, matrixIdentity, MDK, gaps, reports,
                   identities, spuriousVector, pc, ret>>

\* after the last sequence the byte counts are added, the columns that reach
\* the threshold are counted and the score of sequence i is written
SV_Finish ==
    /\ pc = "sv_compare"
    /\ frame.j = originalNumberOfSequences
    /\ LET total == [k \in Columns |-> hits.col[k] + hits_u8.col[k]]
           seqValue == Cardinality({k \in Columns : total[k] >= frame.ovrlap})
       IN  /\ hits' = [col |-> total]
           /\ spuriousVector' =
                    WriteScore(frame.i, FDivInt(seqValue, originalNumberOfResidues))
    /\ pc' = "sv_next"
    /\ UNCHANGED <<self, alig, simMatrix, matrixIdentity, MDK, gaps, reports,
                   identities, hits_u8, frame, ret>>

\* the loop over the sequences advances, or the method returns true; the
\* counters of a finished call are never read again
SV_Next ==
    /\ pc = "sv_next"
    /\ IF frame.i + 1 < originalNumberOfSequences
       THEN /\ pc' = "sv_begin"
            /\ frame' = [frame EXCEPT !.i = @ + 1]
            /\ UNCHANGED <<hits, hits_u8, ret>>
       ELSE /\ pc' = "idle"
            /\ frame' = IdleFrame
            /\ hits' = NULL
            /\ hits_u8' = NULL
            /\ ret' = [op |-> "calculateSpuriousVector", value |-> "true"]
    /\ UNCHANGED <<self, alig, simMatrix, matrixIdentity, MDK, gaps, reports,
                   identities, spuriousVector>>

-----------------------------------------------------------------------------
(* Initial states: the alignments an instance is built on *)

Rows == {<<a, b>> : a \in Alphabet, b \in Alphabet}

FirstRows == {<<a, b>> : a \in Alphabet \cup OddSymbols, b \in Alphabet}

\* residues no scan reads are fixed, so that equal alignments are one value
Canonical(a) ==
    /\ (a.N = 1) => (a.tile[2] = <<"A", "A">>)
    /\ (a.R < 2) => (a.tile[1][2] = "A" /\ a.tile[2][2] = "A")
    /\ (a.R = 0) => (a.tile[1][1] = "A" /\ a.tile[2][1] = "A" /\ a.type = "NT")

\* rows of period 1
PlainRows == {<<a, a>> : a \in Alphabet}

\* the alignments of the given shapes <<N, R>>, first rows and other rows,
\* nothing removed
Alignments(shapes, firstRows, rows) ==
    {a \in [N : {sh[1] : sh \in shapes}, R : {sh[2] : sh \in shapes}, type : Types,
            tile : firstRows \X rows, removed : {{}}, masked : {<<FALSE, FALSE>>}] :
        <<a.N, a.R>> \in shapes /\ Canonical(a)}

SmallShapes == (1 .. MaxSeqs) \X (0 .. MaxRes)

GapShapes == {<<GapSeqs, GapRes>>}

Lengths ==
    {b * NLANES_8 * UCHAR_MAX + c * NLANES_8 + t :
        b \in 0 .. MaxBlocks, c \in 0 .. MaxChunks, t \in 0 .. MaxTail}

LongShapes == {2} \X Lengths

\* MDK before any column is written: every entry is an uninitialised float
NoColumns == << >>

\* the state after construction on alignment a
Constructed(kind, a, table) ==
    /\ self = kind
    /\ alig = a
    /\ simMatrix = table
    /\ matrixIdentity = NULL
    /\ MDK = NoColumns
    /\ gaps = NULL
    /\ reports = {}
    /\ identities = NULL
    /\ spuriousVector = NULL
    /\ hits = NULL
    /\ hits_u8 = NULL
    /\ pc = "idle"
    /\ frame = IdleFrame
    /\ ret = [op |-> "none", value |-> "void"]

\* a NEONSimilarity on a long alignment, driven through calculateMatrixIdentity
InitIdentity ==
    \E a \in Alignments(LongShapes, Rows, Rows) : Constructed("Similarity", a, NULL)

NextIdentity ==
    \/ calculateMatrixIdentity
    \/ MI_UnrolledChunk
    \/ MI_UnrolledMerge
    \/ MI_RemainingChunk
    \/ MI_Tail
    \/ MI_Next

SpecIdentity == InitIdentity /\ [][NextIdentity]_vars

\* the alignments of S of one type
OfType(S, t) == {a \in S : a.type = t}

\* a NEONSimilarity on a small, a gappy or a long alignment
InitSimilarity ==
    \/ \E a \in Alignments(SmallShapes, FirstRows, Rows)
                    \cup Alignments(GapShapes, FirstRows, PlainRows) :
            \E table \in {NULL} \cup Tables : Constructed("Similarity", a, table)
    \/ \E a \in OfType(Alignments(LongShapes, PlainRows, PlainRows), "NT") :
            Constructed("Similarity", a, NULL)

NextSimilarity ==
    \/ calculateMatrixIdentity
    \/ MI_UnrolledChunk
    \/ MI_UnrolledMerge
    \/ MI_RemainingChunk
    \/ MI_Tail
    \/ MI_Next
    \/ \E cutByGap \in BOOLEAN : calculateVectors(cutByGap)
    \/ CV_SkipColumn
    \/ CV_BadSymbol
    \/ CV_ScoreColumn
    \/ CV_Release

SpecSimilarity == InitSimilarity /\ [][NextSimilarity]_vars

\* the output vector before any entry is written
NoScores == [out |-> << >>]

\* alignments whose columns reach the chunk loop of calculateSpuriousVector
ChunkShapes == {<<2, MaxWidth>>}

\* alignments of more than UCHAR_MAX sequences
ManyShapes == {<<UCHAR_MAX + SeqsOver, 1>>}

ManyRows == {<<"A", "A">>, <<"-", "A">>}

\* a NEONCleaner on a small alignment, on one with a chunk of columns or on one
\* of many sequences
InitSpurious ==
    \E a \in Alignments(SmallShapes \cup ChunkShapes, Rows, Rows)
                \cup OfType(Alignments(ManyShapes, ManyRows, ManyRows), "NT") :
        Constructed("Cleaner", a, NULL)

NextSpurious ==
    \/ \E overlap \in Overlaps, buffer \in {NULL, NoScores} :
            calculateSpuriousVector(overlap, buffer)
    \/ SV_Begin
    \/ SV_Skip
    \/ SV_Compare
    \/ SV_Finish
    \/ SV_Next

SpecSpurious == InitSpurious /\ [][NextSpurious]_vars

\* the sequences and the columns an earlier trimming step has removed
Removals(n) == {{}} \cup {{s} : s \in 0 .. (n - 1)}

Masks(r) ==
    {m \in BOOLEAN \X BOOLEAN : ((r < 2) => ~m[2]) /\ ((r = 0) => ~m[1])}

Trimmed(S) ==
    UNION {{[a EXCEPT !.removed = r, !.masked = m] :
                r \in Removals(a.N), m \in Masks(a.R)} : a \in S}

\* a NEONSimilarity or a NEONCleaner, driven through every method
Init ==
    \/ InitSimilarity
    \/ \E a \in Trimmed(Alignments(SmallShapes, Rows, Rows)
                            \cup Alignments(LongShapes, PlainRows, PlainRows)) :
            Constructed("Cleaner", a, NULL)

Next ==
    \/ calculateMatrixIdentity
    \/ MI_UnrolledChunk
    \/ MI_UnrolledMerge
    \/ MI_RemainingChunk
    \/ MI_Tail
    \/ MI_Next
    \/ \E cutByGap \in BOOLEAN : calculateVectors(cutByGap)
    \/ CV_SkipColumn
    \/ CV_BadSymbol
    \/ CV_ScoreColumn
    \/ CV_Release
    \/ calculateSeqIdentity
    \/ SI_UnrolledChunk
    \/ SI_UnrolledMerge
    \/ SI_RemainingChunk
    \/ SI_Tail
    \/ SI_Next
    \/ \E overlap \in Overlaps, buffer \in {NULL, NoScores} :
            calculateSpuriousVector(overlap, buffer)
    \/ SV_Begin
    \/ SV_Skip
    \/ SV_Compare
    \/ SV_Finish
    \/ SV_Next

Spec == Init /\ [][Next]_vars

\* a NEONSimilarity or a NEONCleaner on a long alignment, or a NEONCleaner on
\* a small one, driven through the scans of the two identity matrices
InitScans ==
    \/ \E a \in OfType(Alignments(LongShapes, PlainRows, PlainRows), "NT") :
            Constructed("Similarity", a, NULL)
    \/ \E a \in Trimmed(Alignments(SmallShapes, Rows, Rows)
                    \cup OfType(Alignments(LongShapes, PlainRows, PlainRows), "NT")) :
            Constructed("Cleaner", a, NULL)

NextScans ==
    \/ calculateMatrixIdentity
    \/ MI_UnrolledChunk
    \/ MI_UnrolledMerge
    \/ MI_RemainingChunk
    \/ MI_Tail
    \/ MI_Next
    \/ calculateSeqIdentity
    \/ SI_UnrolledChunk
    \/ SI_UnrolledMerge
    \/ SI_RemainingChunk
    \/ SI_Tail
    \/ SI_Next

SpecScans == InitScans /\ [][NextScans]_vars

-----------------------------------------------------------------------------
(* Properties of calculateMatrixIdentity *)

\* a character that is a gap or the indetermination symbol
NoResidue(c) == c \in {"-", indet}

\* the totals of a scan that visits every position 0 .. R-1 once
NaiveSum(i, j) ==
    Cardinality({p \in 0 .. (originalNumberOfResidues - 1) :
        /\ ~NoResidue(sequences(i, p))
        /\ ~NoResidue(sequences(j, p))
        /\ sequences(i, p) = sequences(j, p)})

NaiveLength(i, j) ==
    Cardinality({p \in 0 .. (originalNumberOfResidues - 1) :
        ~NoResidue(sequences(i, p)) \/ ~NoResidue(sequences(j, p))})

\* C1: when the scan of a pair (i, j) is over, it has visited the positions up
\* to R, and sum and length are the totals of the naive scan: length counts
\* the positions where at least one character is a residue, sum those where
\* both are residues and equal
C1_ScanEqualsNaive ==
    (pc = "mi_next") =>
        /\ frame.k = originalNumberOfResidues
        /\ frame.sum = NaiveSum(frame.i, frame.j)
        /\ frame.length = NaiveLength(frame.i, frame.j)

\* a pair of R = 255*16 + 16 + 1 residues is scanned: a block, a chunk and a
\* tail; some positions count for length only, some for both
C1_Witness ==
    /\ pc = "mi_next"
    /\ originalNumberOfResidues = NLANES_8 * UCHAR_MAX + NLANES_8 + 1
    /\ 0 < frame.sum
    /\ frame.sum < frame.length

-----------------------------------------------------------------------------
(* Properties of calculateVectors *)

\* the loop of calculateVectors is at column i, cutByGap is set, and the gaps
\* of the column are at least 0.8 of the number of sequences
AtGappyColumn ==
    /\ pc = "cv_column"
    /\ frame.i < originalNumberOfResidues
    /\ frame.cutByGap
    /\ 5 * gaps.window[frame.i] >= 4 * originalNumberOfSequences

\* C5: with cutByGap, a column whose gaps are at least 0.8 of the number of
\* sequences gets MDK 0 and the loop moves on to the next column: no symbol
\* of the column is validated or reported, and the call does not end there
C5_GappyColumnSkipped ==
    [][AtGappyColumn =>
            /\ pc' = "cv_column"
            /\ frame'.i = frame.i + 1
            /\ frame.i \in DOMAIN MDK'
            /\ MDK'[frame.i] = Zero
            /\ reports' = reports]_vars

\* the Q value of column c over the pairs the code sums over
ColumnQ(c) == FDiv(ColumnNum(ColumnPairs(c), c), ColumnDen(ColumnPairs(c)))

\* column c has been scored by this call: the loop has passed it and has not
\* skipped it, and its den is not 0
Scored(c) ==
    /\ pc = "cv_column"
    /\ c < frame.i
    /\ ~(frame.cutByGap /\ ReachesGapThreshold(gaps.window[c]))
    /\ ~FEq(ColumnDen(ColumnPairs(c)), Zero)

\* C6 as stated: the score of a column with den # 0 is 1 when Q >= 0 and
\* exp(-Q) otherwise
C6_OneWhenNonNegative ==
    \A c \in 0 .. (originalNumberOfResidues - 1) :
        Scored(c) =>
            /\ (IsRat(ColumnQ(c)) /\ ColumnQ(c)[2] >= 0) => MDK[c] = One
            /\ FNegative(ColumnQ(c)) => MDK[c] = ExpNeg(ColumnQ(c))

\* C6, amended: the score of a column with den # 0 is 1 when Q < 0 and
\* exp(-Q) when Q >= 0
C6_OneWhenNegative ==
    \A c \in 0 .. (originalNumberOfResidues - 1) :
        Scored(c) =>
            /\ FNegative(ColumnQ(c)) => MDK[c] = One
            /\ (IsRat(ColumnQ(c)) /\ ColumnQ(c)[2] >= 0) =>
                    MDK[c] = ExpNeg(ColumnQ(c))

\* a column of positive Q has been scored: its score is exp(-Q), not 1
C6_Witness ==
    \E c \in 0 .. (originalNumberOfResidues - 1) :
        /\ Scored(c)
        /\ IsRat(ColumnQ(c))
        /\ ColumnQ(c)[2] > 0
        /\ MDK[c] = ExpNeg(ColumnQ(c))
        /\ MDK[c] # One

\* C10: a call of calculateVectors without a similarity table returns false
\* and writes no MDK entry, leaves the identity matrix as it is, present or
\* absent, and computes no gap statistics
C10_NoTableNoOutput ==
    [][(simMatrix = NULL /\ \E cutByGap \in BOOLEAN : calculateVectors(cutByGap)) =>
            /\ ret' = [op |-> "calculateVectors", value |-> "false"]
            /\ pc' = "idle"
            /\ UNCHANGED <<MDK, matrixIdentity, gaps, reports>>]_vars

\* a call without a table has returned false on an instance whose identity
\* matrix an earlier calculateMatrixIdentity had built: the matrix is there
C10_Witness ==
    /\ simMatrix = NULL
    /\ ret = [op |-> "calculateVectors", value |-> "false"]
    /\ matrixIdentity # NULL
    /\ MDK = NoColumns
    /\ gaps = NULL

-----------------------------------------------------------------------------
(* Properties of calculateSpuriousVector *)

\* sequences i and j agree at column k: the same character, or a residue each
Agree(i, j, k) ==
    \/ sequences(i, k) = sequences(j, k)
    \/ ~NoResidue(sequences(i, k)) /\ ~NoResidue(sequences(j, k))

Others(i) == (0 .. (originalNumberOfSequences - 1)) \ {i}

\* C2: when the comparisons of sequence i are over, hits[k] is, for every
\* column k, the number of sequences j # i that agree with sequence i at
\* column k: no count was lost to a byte counter that wrapped
C2_HitsExact ==
    (pc = "sv_next") =>
        \A k \in Columns :
            hits.col[k] = Cardinality({j \in Others(frame.i) : Agree(frame.i, j, k)})

\* the call is on an alignment a score is defined on, with a positive overlap
\* threshold, and the score of sequence i has just been written
ScoredWithOverlap ==
    /\ pc = "sv_next"
    /\ originalNumberOfSequences >= 2
    /\ originalNumberOfResidues >= 1
    /\ frame.overlap[2] > 0

\* C7 as stated: with a positive overlap threshold, a sequence whose character
\* differs at every column from that of every other sequence scores 0.0
C7_DifferentScoresZero ==
    (/\ ScoredWithOverlap
     /\ \A k \in Columns : \A j \in Others(frame.i) :
            sequences(frame.i, k) # sequences(j, k))
        => spuriousVector.out[frame.i] = Zero

\* C7, amended: with a positive overlap threshold, a sequence scores 0.0 when
\* at every column and against every other sequence the two characters
\* differ and at least one of them is a gap or the indetermination symbol
C7_NoOverlapScoresZero ==
    (/\ ScoredWithOverlap
     /\ \A k \in Columns : \A j \in Others(frame.i) :
            /\ sequences(frame.i, k) # sequences(j, k)
            /\ NoResidue(sequences(frame.i, k)) \/ NoResidue(sequences(j, k)))
        => spuriousVector.out[frame.i] = Zero

\* a sequence of residues among sequences of gaps has been scored 0.0
C7_Witness ==
    /\ ScoredWithOverlap
    /\ \A k \in Columns : \A j \in Others(frame.i) :
            /\ ~NoResidue(sequences(frame.i, k))
            /\ NoResidue(sequences(j, k))
    /\ spuriousVector.out[frame.i] = Zero

\* C8: with overlap 1.0 and all sequences identical, every sequence scores
\* 1.0, whatever the number N >= 2 of sequences and whatever the columns hold
C8_IdenticalScoreOne ==
    (/\ pc = "sv_next"
     /\ originalNumberOfSequences >= 2
     /\ originalNumberOfResidues >= 1
     /\ frame.overlap = One
     /\ \A k \in Columns : \A j \in Others(0) : sequences(j, k) = sequences(0, k))
        => spuriousVector.out[frame.i] = One

-----------------------------------------------------------------------------
(* Properties of the two identity matrices and of all scores *)

\* C3: a pair without a residue at any position, so that length, respectively
\* dst, is 0, is stored as 0 by calculateMatrixIdentity and by
\* calculateSeqIdentity
C3_NoResiduePairIsZero ==
    /\ (pc = "mi_next" /\ frame.length = 0) =>
            /\ FEq(matrixIdentity[<<frame.i, frame.j>>], Zero)
            /\ FEq(matrixIdentity[<<frame.j, frame.i>>], Zero)
    /\ (pc = "si_next" /\ frame.dst = 0) =>
            /\ FEq(identities.row[<<frame.i, frame.j>>], Zero)
            /\ FEq(identities.row[<<frame.j, frame.i>>], Zero)

\* the floats that have been written to an array
Written(m) == {m[x] : x \in DOMAIN m} \ {Uninit}

\* C4: on an alignment of at least one column, every score written lies in
\* [0, 1]: the distances of the identity matrix, the MDK values, the masked
\* identities and the spuriousness fractions
C4_ScoresInUnit ==
    (originalNumberOfResidues >= 1) =>
        /\ (matrixIdentity # NULL) => \A x \in Written(matrixIdentity) : InUnit(x)
        /\ \A x \in Written(MDK) : InUnit(x)
        /\ (identities # NULL) => \A x \in Written(identities.row) : InUnit(x)
        /\ (spuriousVector # NULL) => \A x \in Written(spuriousVector.out) : InUnit(x)

\* C9: after calculateMatrixIdentity the two slots of every pair i # j compare
\* equal; after calculateSeqIdentity the two slots of every pair of kept
\* sequences compare equal and the diagonal entry of every kept sequence is 0
C9_Symmetric ==
    /\ (ret = [op |-> "calculateMatrixIdentity", value |-> "void"]) =>
            \A i, j \in 0 .. (originalNumberOfSequences - 1) :
                (i # j) => FEq(matrixIdentity[<<i, j>>], matrixIdentity[<<j, i>>])
    /\ (ret = [op |-> "calculateSeqIdentity", value |-> "void"]) =>
            \A i, j \in Kept :
                /\ FEq(identities.row[<<i, j>>], identities.row[<<j, i>>])
                /\ FEq(identities.row[<<i, i>>], Zero)

-----------------------------------------------------------------------------
(* Properties of the byte accumulators *)

\* the sum of the 16 lanes as integers
RECURSIVE LaneTotalUpTo(_, _)
LaneTotalUpTo(a, n) == IF n < 0 THEN 0 ELSE a[n] + LaneTotalUpTo(a, n - 1)

LaneTotal(a) == LaneTotalUpTo(a, NLANES_8 - 1)

\* a step of a scan that takes one chunk of 16 positions
ChunkStep(scan) ==
    /\ pc = scan
    /\ pc' = scan
    /\ frame'.k = frame.k + NLANES_8

\* a step of a scan that reduces the accumulators at the end of a block
MergeStep(scan) ==
    /\ pc = scan
    /\ pc' = scan
    /\ frame'.k = frame.k

\* C11: in calculateMatrixIdentity and in calculateSeqIdentity, a chunk adds
\* its increment to every lane of the accumulators without the lane passing
\* 255, in a block and in the chunk loop after the blocks alike, and every
\* reduction by vhaddq_u8, at the end of a block and before the tail, adds to
\* the scalar total the exact sum of the 16 lanes
C11_NoLaneWraps ==
    [][/\ ChunkStep("mi_scan") =>
            \A lane \in Lanes :
                /\ frame.sum_acc[lane] + 1 <= UCHAR_MAX
                /\ frame.len_acc[lane] + 1 <= UCHAR_MAX
                /\ frame'.sum_acc[lane] = frame.sum_acc[lane]
                        + SumMask(frame.i, frame.j, frame.k + lane)
                /\ frame'.len_acc[lane] = frame.len_acc[lane]
                        + LenMask(frame.i, frame.j, frame.k + lane)
       /\ MergeStep("mi_scan") =>
            /\ frame'.sum = frame.sum + LaneTotal(frame.sum_acc)
            /\ frame'.length = frame.length + LaneTotal(frame.len_acc)
       /\ (pc = "mi_scan" /\ pc' = "mi_next") =>
            /\ frame'.sum = frame.sum + LaneTotal(frame.sum_acc)
                    + TailSum(frame.i, frame.j, frame.k)
            /\ frame'.length = frame.length + LaneTotal(frame.len_acc)
                    + TailLength(frame.i, frame.j, frame.k)
       /\ ChunkStep("si_scan") =>
            \A lane \in Lanes :
                /\ frame.hit_acc[lane] + 1 <= UCHAR_MAX
                /\ frame.dst_acc[lane] + 1 <= UCHAR_MAX
                /\ frame'.hit_acc[lane] = frame.hit_acc[lane]
                        + HitMask(frame.i, frame.j, frame.k + lane)
                /\ frame'.dst_acc[lane] = frame.dst_acc[lane]
                        + DstMask(frame.i, frame.j, frame.k + lane)
       /\ MergeStep("si_scan") =>
            /\ frame'.hit = frame.hit + LaneTotal(frame.hit_acc)
            /\ frame'.dst = frame.dst + LaneTotal(frame.dst_acc)
       /\ (pc = "si_scan" /\ pc' = "si_next") =>
            /\ frame'.hit = frame.hit + LaneTotal(frame.hit_acc)
                    + TailHit(frame.i, frame.j, frame.k)
            /\ frame'.dst = frame.dst + LaneTotal(frame.dst_acc)
                    + TailDst(frame.i, frame.j, frame.k)]_vars

\* the chunk loop after the blocks has run its 254 iterations on a pair of
\* 255 * 16 residues: a lane of len_acc holds 254 and the tail comes next
C11_Witness ==
    /\ pc = "mi_scan"
    /\ frame.l = 0
    /\ ~UnrolledCond(frame.k)
    /\ ~RemainingCond(frame.k)
    /\ originalNumberOfResidues = NLANES_8 * UCHAR_MAX
    /\ \E lane \in Lanes : frame.len_acc[lane] = UCHAR_MAX - 1

-----------------------------------------------------------------------------
(* Properties of calculateSeqIdentity *)

\* the kept columns where sequences i and j do not both lack a residue
Counted(i, j) ==
    {p \in 0 .. (originalNumberOfResidues - 1) :
        /\ saveResidues(p) # -1
        /\ ~(NoResidue(sequences(i, p)) /\ NoResidue(sequences(j, p)))}

\* C12: when the scan of a pair (i, j) is over, both sequences are kept, dst
\* is the number of kept columns where not both characters are a gap or
\* indeterminate, and hit is the number of those where the characters are
\* equal; a removed sequence is in no pair that is scanned and has no row
C12_MaskedScanEqualsNaive ==
    /\ (pc \in {"si_scan", "si_next"}) =>
            /\ saveSequences(frame.i) # -1
            /\ saveSequences(frame.j) # -1
    /\ (pc = "si_next") =>
            /\ frame.k = originalNumberOfResidues
            /\ frame.dst = Cardinality(Counted(frame.i, frame.j))
            /\ frame.hit = Cardinality({p \in Counted(frame.i, frame.j) :
                                sequences(frame.i, p) = sequences(frame.j, p)})
    /\ (identities # NULL) =>
            \A x \in DOMAIN identities.row : saveSequences(x[1]) # -1

\* a pair of 255*16 + 16 + 1 residues has been scanned with the even columns
\* removed: the odd columns alone are counted, and they hold equal residues
C12_Witness ==
    /\ pc = "si_next"
    /\ originalNumberOfResidues = NLANES_8 * UCHAR_MAX + NLANES_8 + 1
    /\ alig.masked = <<TRUE, FALSE>>
    /\ frame.hit > 0
    /\ frame.dst = (originalNumberOfResidues - 1) \div 2

-----------------------------------------------------------------------------
(* Properties of the lifetime of the identity matrix *)

\* C13: when a call of calculateVectors that found a similarity table has
\* returned, with true or with false after the report of a symbol, the
\* identity matrix is released: a later calculateMatrixIdentity finds no
\* matrix and computes it again
C13_ReleasedOnReturn ==
    (/\ simMatrix # NULL
     /\ ret.op = "calculateVectors"
     /\ ret.value \in {"true", "false"})
        => matrixIdentity = NULL

====
